---- MODULE Spec2Model ----
(***************************************************************************)
(* A model of bob.extension: the two-phase build of build_ext.run          *)
(* (src/bob/extension/__init__.py) and the pure helpers it rests on        *)
(* (uniq and find_file of src/bob/extension/utils.py, check_packages,      *)
(* normalize_requirements, reorganize_isystem, generate_self_macros), and  *)
(* the constructors Extension.__init__ and Library.__init__.               *)
(*                                                                         *)
(* Python strings whose characters matter (requirement strings, include    *)
(* paths compared by length and lexically) are sequences of one-character  *)
(* strings.  File-system paths that are only joined and compared for       *)
(* equality are sequences of path components, os.path.join being \o.       *)
(***************************************************************************)
EXTENDS Integers, Sequences, FiniteSets, TLC

VARIABLES
  extensions,    \* build_ext.extensions: the target list of the command
  declared,      \* the target list as it was when run() was entered
  pc,            \* position of the running operation
  idx,           \* position of the first loop of run() in self.extensions
  libs,          \* run(): local list libs
  lib_dirs,      \* run(): local list lib_dirs
  include_dirs,  \* run(): local list include_dirs
  trace,         \* external steps done so far: generate, cmake, make, build
  input,         \* arguments of the pure function under study
  output,        \* its outcome: [status |-> "ok", value |-> ...] or an error
  heap,          \* the list objects shared between calls, by reference
  constructed    \* the Library targets constructed so far

vars == <<extensions, declared, pc, idx, libs, lib_dirs, include_dirs, trace,
          input, output, heap, constructed>>

runvars == <<extensions, declared, idx, libs, lib_dirs, include_dirs, trace>>

(***************************************************************************)
(* Bounds                                                                  *)
(***************************************************************************)
MaxTargets == 3

(***************************************************************************)
(* Generic sequence helpers                                                *)
(***************************************************************************)
Range(s) == {s[k] : k \in 1..Len(s)}

SeqsUpTo(S, n) == UNION {[1..k -> S] : k \in 0..n}

Reverse(s) == [k \in 1..Len(s) |-> s[Len(s) + 1 - k]]

Last(s) == s[Len(s)]

Front(s) == SubSeq(s, 1, Len(s) - 1)

\* position of the first occurrence of x in s (0 when absent)
FirstIndex(s, x) ==
  IF x \in Range(s) THEN CHOOSE k \in 1..Len(s) : s[k] = x /\ \A j \in 1..(k-1) : s[j] # x
  ELSE 0

NotStarted == [status |-> "pending"]

\* the default value of the parameter system_include_dirs of
\* Library.__init__: one list object, referred to by this number
DefaultSystemIncludeDirs == 0

\* the list objects there are before any call: the default list, empty
InitialHeap == (DefaultSystemIncludeDirs :> <<>>)

(***************************************************************************)
(* utils.uniq: the list comprehension with the set of seen values         *)
(***************************************************************************)
RECURSIVE uniq_from(_, _, _)
uniq_from(seq, k, seen) ==
  IF k > Len(seq) THEN <<>>
  ELSE IF seq[k] \notin seen
       THEN <<seq[k]>> \o uniq_from(seq, k + 1, seen \cup {seq[k]})
       ELSE uniq_from(seq, k + 1, seen)

\* a uniq whose set of seen values is never filled
uniq_noseen(seq) == seq

uniq(seq) == uniq_from(seq, 1, {})

(***************************************************************************)
(* Build targets.  A path is the sequence of its components; a dotted      *)
(* name is the sequence of its parts.                                      *)
(***************************************************************************)
PackageDirectory == <<"cwd">>

LibraryNames == {<<"bob", "core", "bob_core">>, <<"bob", "io", "bob_io">>}

ExtensionNames == {<<"bob", "core", "_library">>, <<"bob", "core", "version">>}

OwnLibraries == {<<>>, <<"m">>, <<"z", "m">>}

\* the library_dirs and include_dirs a target declares, chosen together
OwnDirs == {[library_dirs |-> <<>>, include_dirs |-> <<>>],
            [library_dirs |-> <<<<"opt", "lib">>>>,
             include_dirs |-> <<<<"opt", "include">>, <<"opt", "x">>>>]}

\* Library.__init__: c_name and c_target_directory from the dotted name
LibraryTarget(name) ==
  [kind |-> "Library",
   name |-> name,
   c_name |-> Last(name),
   c_target_directory |-> PackageDirectory \o Front(name),
   libraries |-> <<>>, library_dirs |-> <<>>, include_dirs |-> <<>>]

\* an Extension as the base class constructor leaves it
ExtensionTarget(name, l, ld, inc) ==
  [kind |-> "Extension",
   name |-> name,
   c_name |-> "",
   c_target_directory |-> <<>>,
   libraries |-> l, library_dirs |-> ld, include_dirs |-> inc]

Targets ==
  {LibraryTarget(n) : n \in LibraryNames}
  \cup {ExtensionTarget(n, l, d.library_dirs, d.include_dirs) :
          n \in ExtensionNames, l \in OwnLibraries, d \in OwnDirs}

isLibrary(ext) == ext.kind = "Library"

(***************************************************************************)
(* build_ext.run as a state machine.  The two subprocess.call of           *)
(* Library.compile block until the child exits; the exit code is the       *)
(* environment's choice.                                                   *)
(***************************************************************************)
ExitCodes == {0, 1}

InitRun ==
  /\ extensions \in SeqsUpTo(Targets, MaxTargets)
  /\ declared = extensions
  /\ pc = "loop"
  /\ idx = 1
  /\ libs = <<>>
  /\ lib_dirs = <<>>
  /\ include_dirs = <<>>
  /\ trace = <<>>
  /\ input = <<>>
  /\ output = NotStarted
  /\ heap = InitialHeap
  /\ constructed = <<>>

\* the first loop meets a target that is no Library: nothing to do for it
SkipExtension ==
  /\ pc = "loop"
  /\ idx <= Len(extensions)
  /\ ~isLibrary(extensions[idx])
  /\ idx' = idx + 1
  /\ UNCHANGED <<extensions, declared, pc, libs, lib_dirs, include_dirs, trace,
                 input, output, heap, constructed>>

\* the first loop meets a Library: the build directory is made and
\* Library.compile writes the CMakeLists.txt
Generate ==
  /\ pc = "loop"
  /\ idx <= Len(extensions)
  /\ isLibrary(extensions[idx])
  /\ trace' = Append(trace, [step |-> "generate", target |-> idx, rc |-> 0])
  /\ pc' = "cmake"
  /\ UNCHANGED <<extensions, declared, idx, libs, lib_dirs, include_dirs,
                 input, output, heap, constructed>>

\* a failed configure step raises before make is run
configure_ignoring_rc(rc) == "make"

configure_next(rc) == IF rc # 0 THEN "error" ELSE "make"

\* Library.compile: subprocess.call([cmake, package_directory])
Configure ==
  /\ pc = "cmake"
  /\ \E rc \in ExitCodes :
       /\ trace' = Append(trace, [step |-> "cmake", target |-> idx, rc |-> rc])
       /\ pc' = configure_next(rc)
  /\ UNCHANGED <<extensions, declared, idx, libs, lib_dirs, include_dirs,
                 input, output, heap, constructed>>

\* Library.compile: subprocess.call(['make']), then run() records the library
Make ==
  /\ pc = "make"
  /\ \E rc \in ExitCodes :
       /\ trace' = Append(trace, [step |-> "make", target |-> idx, rc |-> rc])
       /\ IF rc # 0
          THEN /\ pc' = "error"
               /\ UNCHANGED <<idx, libs, lib_dirs, include_dirs>>
          ELSE /\ pc' = "loop"
               /\ idx' = idx + 1
               /\ libs' = Append(libs, extensions[idx].c_name)
               /\ lib_dirs' = Append(lib_dirs, extensions[idx].c_target_directory)
               /\ include_dirs' = Append(include_dirs,
                                         extensions[idx].c_target_directory \o <<"include">>)
  /\ UNCHANGED <<extensions, declared, input, output, heap, constructed>>

\* the list comprehension keeping the targets that are no Library
keep_all(exts) == exts

python_extensions(exts) == SelectSeq(exts, LAMBDA e : ~isLibrary(e))

\* the accumulated values are put behind the target's own
append_defaults(acc, own) == (IF own # <<>> THEN own ELSE <<>>) \o acc

prepend_defaults(acc, own) == acc \o (IF own # <<>> THEN own ELSE <<>>)

\* the second loop of run()
with_defaults(ext) ==
  [ext EXCEPT !.libraries = prepend_defaults(libs, ext.libraries),
              !.library_dirs = prepend_defaults(lib_dirs, ext.library_dirs),
              !.include_dirs = prepend_defaults(include_dirs, ext.include_dirs)]

\* after the first loop: filter, set the defaults, call _build_ext.run
BuildExtensions ==
  /\ pc = "loop"
  /\ idx > Len(extensions)
  /\ extensions' = [k \in 1..Len(python_extensions(extensions)) |->
                      with_defaults(python_extensions(extensions)[k])]
  /\ trace' = Append(trace, [step |-> "build_ext", target |-> 0, rc |-> 0])
  /\ pc' = "done"
  /\ UNCHANGED <<declared, idx, libs, lib_dirs, include_dirs, input, output, heap, constructed>>

NextRun == SkipExtension \/ Generate \/ Configure \/ Make \/ BuildExtensions

Spec == InitRun /\ [][NextRun]_vars

(***************************************************************************)
(* Claims about build_ext.run                                              *)
(***************************************************************************)
DeclaredLibraries == SelectSeq(declared, LAMBDA e : e.kind = "Library")

DeclaredExtensions == SelectSeq(declared, LAMBDA e : e.kind = "Extension")

\* the positions of the Library targets in the declared list, ascending
DeclaredLibraryPositions ==
  SelectSeq([k \in 1..Len(declared) |-> k], LAMBDA k : declared[k].kind = "Library")

LibraryNameOf(t) == t.name[Len(t.name)]

LibraryDirOf(t) == <<"cwd">> \o SubSeq(t.name, 1, Len(t.name) - 1)

\* C1: after run(), every remaining Extension target's libraries are the
\* names of all Library targets in declaration order followed by its own
\* declared libraries; its library_dirs start with their target directories
\* and its include_dirs with their include subdirectories, its own values
\* following unchanged.
C1_DefaultsPrepended ==
  pc = "done" =>
    /\ Len(extensions) = Len(DeclaredExtensions)
    /\ \A k \in 1..Len(extensions) :
         /\ extensions[k].libraries =
              [j \in 1..Len(DeclaredLibraries) |-> LibraryNameOf(DeclaredLibraries[j])]
              \o DeclaredExtensions[k].libraries
         /\ extensions[k].library_dirs =
              [j \in 1..Len(DeclaredLibraries) |-> LibraryDirOf(DeclaredLibraries[j])]
              \o DeclaredExtensions[k].library_dirs
         /\ extensions[k].include_dirs =
              [j \in 1..Len(DeclaredLibraries) |->
                 LibraryDirOf(DeclaredLibraries[j]) \o <<"include">>]
              \o DeclaredExtensions[k].include_dirs
         /\ (Len(DeclaredLibraries) = 1 /\ DeclaredExtensions[k].libraries = <<>>)
              => extensions[k].libraries[1] = LibraryNameOf(DeclaredLibraries[1])

\* two Library targets around an Extension that declares libraries of its own
C1_Witness ==
  /\ pc = "done"
  /\ Len(declared) = 3
  /\ declared[1].kind = "Library"
  /\ declared[2].kind = "Extension"
  /\ declared[3].kind = "Library"
  /\ declared[1].name # declared[3].name
  /\ declared[2].libraries = <<"z", "m">>
  /\ extensions[1].libraries = <<"bob_core", "bob_io", "z", "m">>

\* C2: the standard build step is invoked only after every Library target
\* was compiled (generate, configure with exit code 0, make with exit code
\* 0), one Library at a time in declaration order, and the list handed to
\* it holds no Library target and the Extension targets in their order.
C2_LibrariesFirst ==
  /\ \A k \in 1..Len(trace) : trace[k].step = "build_ext" => (k = Len(trace) /\ pc = "done")
  /\ pc = "done" =>
       /\ Len(trace) = 3 * Len(DeclaredLibraryPositions) + 1
       /\ trace[Len(trace)].step = "build_ext"
       /\ \A j \in 1..Len(DeclaredLibraryPositions) :
            /\ trace[3 * j - 2] = [step |-> "generate", target |-> DeclaredLibraryPositions[j], rc |-> 0]
            /\ trace[3 * j - 1] = [step |-> "cmake", target |-> DeclaredLibraryPositions[j], rc |-> 0]
            /\ trace[3 * j] = [step |-> "make", target |-> DeclaredLibraryPositions[j], rc |-> 0]
       /\ \A k \in 1..Len(extensions) : extensions[k].kind # "Library"
       /\ [k \in 1..Len(extensions) |-> extensions[k].name]
            = [k \in 1..Len(DeclaredExtensions) |-> DeclaredExtensions[k].name]

C2_Witness ==
  /\ pc = "done"
  /\ Len(declared) = 3
  /\ declared[1].kind = "Extension"
  /\ declared[2].kind = "Library"
  /\ declared[3].kind = "Extension"
  /\ declared[1].name # declared[3].name
  /\ Len(trace) = 4
  /\ Len(extensions) = 2

\* C3: a configure or make step that exits non-zero aborts the build there:
\* no step follows it (no make after a failed configure, no later Library,
\* no standard build step) and no target is modified.
C3_FailureAborts ==
  /\ \A k \in 1..Len(trace) :
       trace[k].rc # 0 => (k = Len(trace) /\ pc = "error")
  /\ pc = "error" =>
       /\ trace # <<>>
       /\ trace[Len(trace)].rc # 0
       /\ extensions = declared
       /\ ~ENABLED NextRun

\* the configure step of the second Library fails, an Extension before it
C3_Witness ==
  /\ pc = "error"
  /\ Len(declared) = 3
  /\ declared[1].kind = "Library"
  /\ declared[2].kind = "Extension"
  /\ declared[3].kind = "Library"
  /\ trace[Len(trace)] = [step |-> "cmake", target |-> 3, rc |-> 1]

\* the make step fails
C3_WitnessMake ==
  /\ pc = "error"
  /\ trace[Len(trace)].step = "make"

(***************************************************************************)
(* Python strings as sequences of characters                               *)
(***************************************************************************)
\* ord() of the characters used
Ord == [c \in {" ", "-", ".", "/", "0", "1", "2", "<", "=", ">", "a", "b", "c", "o", "s", "t"} |->
          CASE c = " " -> 32 [] c = "-" -> 45 [] c = "." -> 46 [] c = "/" -> 47
            [] c = "0" -> 48 [] c = "1" -> 49 [] c = "2" -> 50
            [] c = "<" -> 60 [] c = "=" -> 61 [] c = ">" -> 62
            [] c = "a" -> 97 [] c = "b" -> 98 [] c = "c" -> 99
            [] c = "o" -> 111 [] c = "s" -> 115 [] c = "t" -> 116]

\* s < t for two Python strings: by code point, a proper prefix first
RECURSIVE StrLess(_, _)
StrLess(s, t) ==
  IF t = <<>> THEN FALSE
  ELSE IF s = <<>> THEN TRUE
  ELSE IF s[1] # t[1] THEN Ord[s[1]] < Ord[t[1]]
  ELSE StrLess(Tail(s), Tail(t))

RECURSIVE Join(_, _)
\* sep.join(parts)
Join(parts, sep) ==
  IF parts = <<>> THEN <<>>
  ELSE IF Len(parts) = 1 THEN parts[1]
  ELSE parts[1] \o sep \o Join(Tail(parts), sep)

IsSpace(c) == c = " "

IsCmp(c) == c \in {"<", ">", "="}

\* re.split(r'\s*(?P<cmp>[<>=]+)\s*', requirement): the text before the
\* leftmost match, the comparator group, then the split of what follows
RECURSIVE split(_)
split(s) ==
  IF \A k \in 1..Len(s) : ~IsCmp(s[k]) THEN <<s>>
  ELSE
    LET k == CHOOSE x \in 1..Len(s) : IsCmp(s[x]) /\ \A y \in 1..(x-1) : ~IsCmp(s[y])
        a == CHOOSE x \in 1..k : (\A y \in x..(k-1) : IsSpace(s[y]))
                                 /\ (x > 1 => ~IsSpace(s[x-1]))
        e == CHOOSE x \in k..Len(s) : (\A y \in k..x : IsCmp(s[y]))
                                      /\ (x < Len(s) => ~IsCmp(s[x+1]))
        f == CHOOSE x \in e..Len(s) : (\A y \in (e+1)..x : IsSpace(s[y]))
                                      /\ (x < Len(s) => ~IsSpace(s[x+1]))
    IN <<SubSeq(s, 1, a - 1), SubSeq(s, k, e)>> \o split(SubSeq(s, f + 1, Len(s)))

(***************************************************************************)
(* The package query adapter (pkgconfig), which check_packages calls: a    *)
(* package resolves to the version the system has installed, and compares  *)
(* with a version string segment by segment, numerically.                  *)
(***************************************************************************)
NotInstalled == <<>>

DigitValue(c) == Ord[c] - 48

RECURSIVE NumberOf(_, _)
NumberOf(digits, acc) ==
  IF digits = <<>> THEN acc ELSE NumberOf(Tail(digits), 10 * acc + DigitValue(digits[1]))

RECURSIVE LooseVersion(_, _)
\* the version string as the sequence of its numeric dot-separated segments
LooseVersion(v, seg) ==
  IF v = <<>> THEN <<NumberOf(seg, 0)>>
  ELSE IF v[1] = "." THEN <<NumberOf(seg, 0)>> \o LooseVersion(Tail(v), <<>>)
  ELSE LooseVersion(Tail(v), Append(seg, v[1]))

RECURSIVE SegmentsLess(_, _)
SegmentsLess(x, y) ==
  IF y = <<>> THEN FALSE
  ELSE IF x = <<>> THEN TRUE
  ELSE IF x[1] # y[1] THEN x[1] < y[1]
  ELSE SegmentsLess(Tail(x), Tail(y))

\* pkgconfig.__lt__ and its siblings
version_lt(p, v) == SegmentsLess(LooseVersion(p.version, <<>>), LooseVersion(v, <<>>))
version_eq(p, v) == LooseVersion(p.version, <<>>) = LooseVersion(v, <<>>)
version_le(p, v) == version_lt(p, v) \/ version_eq(p, v)
version_gt(p, v) == ~version_le(p, v)
version_ge(p, v) == ~version_lt(p, v)

\* pkgconfig(name): the resolved package
pkgconfig(installed, name) == [name |-> name, version |-> installed[name]]

(***************************************************************************)
(* check_packages                                                          *)
(***************************************************************************)
Failure(what) == [status |-> "error", error |-> what]

Success(value) == [status |-> "ok", value |-> value]

\* a check_packages that asserts nothing
satisfied_always(p, cmp, v) == TRUE

\* what the assert of the matching elif branch evaluates
satisfied(p, cmp, v) ==
  CASE cmp = <<">">> -> version_gt(p, v)
    [] cmp = <<">", "=">> -> version_ge(p, v)
    [] cmp = <<"<">> -> version_lt(p, v)
    [] cmp = <<"<", "=">> -> version_le(p, v)
    [] cmp = <<"=", "=">> -> version_le(p, v)
    [] OTHER -> FALSE

KnownCmp == {<<">">>, <<">", "=">>, <<"<">>, <<"<", "=">>, <<"=", "=">>}

RECURSIVE check_loop(_, _, _, _, _)
\* the body of the for loop, from requirement k on
check_loop(installed, reqs, k, used, retval) ==
  IF k > Len(reqs) THEN Success(retval)
  ELSE
    LET splitreq == split(reqs[k]) IN
    IF Len(splitreq) \notin {1, 3} THEN Failure("cannot parse")
    ELSE IF splitreq[1] \notin DOMAIN installed \/ installed[splitreq[1]] = NotInstalled
         THEN Failure("not found")
    ELSE
      LET p == pkgconfig(installed, splitreq[1]) IN
      IF Len(splitreq) = 3 /\ splitreq[2] \notin KnownCmp THEN Failure("cannot parse")
      ELSE IF Len(splitreq) = 3 /\ ~satisfied(p, splitreq[2], splitreq[3])
           THEN Failure("unsatisfied")
      ELSE IF p.name \in used THEN Failure("duplicate")
      ELSE check_loop(installed, reqs, k + 1, used \cup {p.name}, Append(retval, p))

check_packages(installed, packages) == check_loop(installed, uniq(packages), 1, {}, <<>>)

(***************************************************************************)
(* check_packages applied to bounded inputs                                *)
(***************************************************************************)
MaxPackages == 2

PackageNames == {<<"a">>, <<"b">>}

RequestedVersions == {<<"2">>, <<"1", "0">>}

Comparators == {<<"<">>, <<"<", "=">>, <<">">>, <<">", "=">>, <<"=", "=">>, <<"=">>}

\* 'name op version' with single spaces, and without any for one comparator
RequirementStrings ==
  PackageNames
  \cup {n \o <<" ">> \o c \o <<" ">> \o v :
          n \in PackageNames, c \in Comparators, v \in RequestedVersions}
  \cup {n \o <<">">> \o v : n \in PackageNames, v \in RequestedVersions}

\* what the system has installed: a version for each package, or nothing
Installations ==
  {[n \in PackageNames |-> IF n = <<"a">> THEN va ELSE vb] :
     va \in {<<"1">>, <<"2">>, <<"1", "0">>}, vb \in {<<"2">>, NotInstalled}}

IdleRun ==
  /\ extensions = <<>>
  /\ declared = <<>>
  /\ idx = 1
  /\ libs = <<>>
  /\ lib_dirs = <<>>
  /\ include_dirs = <<>>
  /\ trace = <<>>
  /\ heap = InitialHeap
  /\ constructed = <<>>

InitCheck ==
  /\ IdleRun
  /\ pc = "call"
  /\ input \in {[installed |-> i, packages |-> r] :
                  i \in Installations, r \in SeqsUpTo(RequirementStrings, MaxPackages)}
  /\ output = NotStarted

CallCheckPackages ==
  /\ pc = "call"
  /\ output' = check_packages(input.installed, input.packages)
  /\ pc' = "done"
  /\ UNCHANGED <<runvars, input, heap, constructed>>

SpecCheck == InitCheck /\ [][CallCheckPackages]_vars

\* the relation a comparator names, on segment-wise numeric versions
Stands(have, cmp, want) ==
  LET h == LooseVersion(have, <<>>)
      w == LooseVersion(want, <<>>)
  IN CASE cmp = <<"<">> -> SegmentsLess(h, w)
       [] cmp = <<"<", "=">> -> SegmentsLess(h, w) \/ h = w
       [] cmp = <<">">> -> SegmentsLess(w, h)
       [] cmp = <<">", "=">> -> SegmentsLess(w, h) \/ h = w
       [] cmp = <<"=", "=">> -> h = w

FiveComparators == {<<"<">>, <<"<", "=">>, <<">">>, <<">", "=">>, <<"=", "=">>}

\* C4: a single requirement 'name op version', op one of the five
\* comparators, on an installed package is accepted (the resolved package
\* is returned) iff the resolved version stands in relation op to the
\* requested version, and fails as unsatisfied otherwise.
C4_ComparatorHolds ==
  pc = "done" =>
    \A n \in PackageNames, c \in FiveComparators, v \in RequestedVersions :
      (input.packages = <<n \o <<" ">> \o c \o <<" ">> \o v>>
         /\ input.installed[n] # NotInstalled)
      => IF Stands(input.installed[n], c, v)
         THEN output = [status |-> "ok",
                        value |-> <<[name |-> n, version |-> input.installed[n]]>>]
         ELSE output = [status |-> "error", error |-> "unsatisfied"]

\* the same for the four ordering comparators, which the code gets right
C4_OrderingComparators ==
  pc = "done" =>
    \A n \in PackageNames, c \in FiveComparators \ {<<"=", "=">>}, v \in RequestedVersions :
      (input.packages = <<n \o <<" ">> \o c \o <<" ">> \o v>>
         /\ input.installed[n] # NotInstalled)
      => IF Stands(input.installed[n], c, v)
         THEN output = [status |-> "ok",
                        value |-> <<[name |-> n, version |-> input.installed[n]]>>]
         ELSE output = [status |-> "error", error |-> "unsatisfied"]

\* the name of a requirement string of RequirementStrings
NameOf(r) == <<r[1]>>

\* the comparator and the version the string was built from, if any
BuiltFrom(r) ==
  IF Len(r) = 1 THEN {}
  ELSE {[cmp |-> c, version |-> v] : c \in Comparators, v \in RequestedVersions}
       \cap {x \in [cmp : Comparators, version : RequestedVersions] :
               r \in {NameOf(r) \o <<" ">> \o x.cmp \o <<" ">> \o x.version,
                      NameOf(r) \o x.cmp \o x.version}}

\* C5 as stated, for two different requirement strings: a list requesting
\* one package name twice fails with the duplicate-requirement error
\* whatever version the package resolves to.
C5_AlwaysDuplicateError ==
  pc = "done" =>
    ((Len(input.packages) = 2
        /\ input.packages[1] # input.packages[2]
        /\ NameOf(input.packages[1]) = NameOf(input.packages[2])
        /\ input.installed[NameOf(input.packages[1])] # NotInstalled
        /\ \A k \in 1..2 : \A x \in BuiltFrom(input.packages[k]) : x.cmp \in FiveComparators)
     => output = [status |-> "error", error |-> "duplicate"])

\* C5 amended: two different requirement strings for one installed package
\* always fail and return nothing; the error is the duplicate-requirement
\* error when the resolved version stands in the requested relation for
\* both entries, and the unsatisfied-requirement error when it fails an
\* ordering comparator (<, <=, >, >=) of either entry.
C5_DistinctDuplicatesFail ==
  pc = "done" =>
    ((Len(input.packages) = 2
        /\ input.packages[1] # input.packages[2]
        /\ NameOf(input.packages[1]) = NameOf(input.packages[2])
        /\ input.installed[NameOf(input.packages[1])] # NotInstalled
        /\ \A k \in 1..2 : \A x \in BuiltFrom(input.packages[k]) : x.cmp \in FiveComparators)
     => LET have == input.installed[NameOf(input.packages[1])]
            constraints == BuiltFrom(input.packages[1]) \cup BuiltFrom(input.packages[2])
        IN /\ output.status = "error"
           /\ output.error \in {"duplicate", "unsatisfied"}
           /\ (\A x \in constraints : Stands(have, x.cmp, x.version))
                => output.error = "duplicate"
           /\ (\E x \in constraints : x.cmp # <<"=", "=">> /\ ~Stands(have, x.cmp, x.version))
                => output.error = "unsatisfied")

\* 'a > 2' and 'a > 10' with a resolved to 10: only the first is satisfied
C5_WitnessUnsatisfied ==
  /\ pc = "done"
  /\ input.packages = << <<"a", " ", ">", " ", "2">>, <<"a", " ", ">", " ", "1", "0">> >>
  /\ input.installed[<<"a">>] = <<"1", "0">>
  /\ output = [status |-> "error", error |-> "unsatisfied"]

\* 'a > 2' and 'a >= 10' with a resolved to 10: both satisfied
C5_Witness ==
  /\ pc = "done"
  /\ input.packages = << <<"a", " ", ">", " ", "2">>, <<"a", " ", ">", "=", " ", "1", "0">> >>
  /\ input.installed[<<"a">>] = <<"1", "0">>
  /\ output = [status |-> "error", error |-> "duplicate"]

(***************************************************************************)
(* uniq applied to bounded inputs                                          *)
(***************************************************************************)
MaxUniqLen == 5

Elements == {"a", "b", "c"}

InitUniq ==
  /\ IdleRun
  /\ pc = "call"
  /\ input \in SeqsUpTo(Elements, MaxUniqLen)
  /\ output = NotStarted

CallUniq ==
  /\ pc = "call"
  /\ output' = Success(uniq(input))
  /\ pc' = "done"
  /\ UNCHANGED <<runvars, input, heap, constructed>>

SpecUniq == InitUniq /\ [][CallUniq]_vars

\* C9: uniq returns the distinct elements of its input in order of first
\* occurrence: every element of the input once, nothing else, x before y
\* iff x first occurs before y in the input; [a, b, a, c, b] gives
\* [a, b, c]; and uniq of the result is the result.
C9_FirstOccurrenceOrder ==
  pc = "done" =>
    LET r == output.value IN
    /\ output.status = "ok"
    /\ {r[k] : k \in 1..Len(r)} = {input[k] : k \in 1..Len(input)}
    /\ \A a, b \in 1..Len(r) : r[a] = r[b] => a = b
    /\ \A a, b \in 1..Len(r) :
         a < b <=> FirstIndex(input, r[a]) < FirstIndex(input, r[b])
    /\ input = <<"a", "b", "a", "c", "b">> => r = <<"a", "b", "c">>
    /\ uniq(r) = r

C9_Witness ==
  /\ pc = "done"
  /\ input = <<"a", "b", "a", "c", "b">>
  /\ output = [status |-> "ok", value |-> <<"a", "b", "c">>]

(***************************************************************************)
(* normalize_requirements.  The dict parsed keeps its keys in insertion    *)
(* order: it is the sequence of its (key, value) items.                    *)
(***************************************************************************)
HasKey(parsed, key) == \E k \in 1..Len(parsed) : parsed[k].key = key

\* parsed.setdefault(key, [])
setdefault(parsed, key) ==
  IF HasKey(parsed, key) THEN parsed ELSE Append(parsed, [key |-> key, value |-> <<>>])

\* parsed.setdefault(key, []).append(item)
setdefault_append(parsed, key, item) ==
  LET d == setdefault(parsed, key) IN
  [k \in 1..Len(d) |-> IF d[k].key = key
                        THEN [d[k] EXCEPT !.value = Append(@, item)]
                        ELSE d[k]]

RECURSIVE parse_requirements(_, _, _)
\* the first loop of normalize_requirements
parse_requirements(requirements, k, parsed) ==
  IF k > Len(requirements) THEN Success(parsed)
  ELSE
    LET splitreq == split(requirements[k]) IN
    IF Len(splitreq) \notin {1, 3} THEN Failure("cannot parse")
    ELSE IF Len(splitreq) = 1
         THEN parse_requirements(requirements, k + 1, setdefault(parsed, splitreq[1]))
    ELSE parse_requirements(requirements, k + 1,
           setdefault_append(parsed, splitreq[1], <<splitreq[2], splitreq[3]>>))

\* the version and the comparator change places in the joined string
requirement_string_swapped(key, v) == Join(<<key, v[2], v[1]>>, <<" ">>)

\* ' '.join((key, v[0], v[1]))
requirement_string(key, v) == Join(<<key, v[1], v[2]>>, <<" ">>)

\* what one item of parsed adds to leftovers
item_leftovers(item) ==
  LET value == uniq(item.value) IN
  IF value = <<>> THEN <<item.key>>
  ELSE [k \in 1..Len(value) |-> requirement_string(item.key, value[k])]

RECURSIVE leftovers_from(_, _)
\* the second loop of normalize_requirements
leftovers_from(parsed, k) ==
  IF k > Len(parsed) THEN <<>>
  ELSE item_leftovers(parsed[k]) \o leftovers_from(parsed, k + 1)

normalize_requirements(requirements) ==
  LET parsed == parse_requirements(requirements, 1, <<>>) IN
  IF parsed.status = "error" THEN parsed
  ELSE Success(leftovers_from(parsed.value, 1))

(***************************************************************************)
(* normalize_requirements applied to bounded inputs, and to its own result *)
(***************************************************************************)
MaxRequirements == 3

NormConstraints == {<< <<">">>, <<"1">> >>, << <<">">>, <<"2">> >>, << <<"<", "=">>, <<"1">> >>}

NormWhitespace == {<< <<" ">>, <<" ">> >>, << <<>>, <<" ", " ">> >>}

\* bare names, 'name op version' with varying whitespace, two strings with
\* whitespace at an end, one double constraint
NormStrings ==
  PackageNames
  \cup {n \o w[1] \o c[1] \o w[2] \o c[2] :
          n \in PackageNames, c \in NormConstraints, w \in NormWhitespace}
  \cup {<<" ", "a", ">", "1">>, <<"a", " ", ">", "1", " ">>}
  \cup {<<"a", ">", "1", "<", "2">>}

InitNormalize ==
  /\ IdleRun
  /\ pc = "call"
  /\ input \in SeqsUpTo(NormStrings, MaxRequirements)
  /\ output = NotStarted

CallNormalize ==
  /\ pc = "call"
  /\ output' = normalize_requirements(input)
  /\ pc' = "done"
  /\ UNCHANGED <<runvars, input, heap, constructed>>

\* the result of the first call is normalized again
CallNormalizeAgain ==
  /\ pc = "done"
  /\ output.status = "ok"
  /\ output' = [status |-> "ok", value |-> output.value,
                again |-> normalize_requirements(output.value)]
  /\ pc' = "again"
  /\ UNCHANGED <<runvars, input, heap, constructed>>

NextNormalize == CallNormalize \/ CallNormalizeAgain

SpecNormalize == InitNormalize /\ [][NextNormalize]_vars

\* C6: normalize_requirements is idempotent: normalizing the result of an
\* accepted call gives that result again, as a sequence.
C6_Idempotent ==
  pc = "again" => output.again = [status |-> "ok", value |-> output.value]

\* one name three times: the same constraint in two spacings and a bare
\* entry, merged into one entry that normalizes to itself
C6_Witness ==
  /\ pc = "again"
  /\ input = << <<"a", ">", " ", " ", "1">>, <<"a">>, <<"a", " ", ">", " ", "1">> >>
  /\ output.value = << <<"a", " ", ">", " ", "1">> >>
  /\ output.again.value = output.value

\* two names, two constraints for the first, kept in encounter order
C6_WitnessOrder ==
  /\ pc = "again"
  /\ input = << <<"b", " ", ">", " ", "2">>, <<"a">>, <<"b", " ", ">", " ", "1">> >>
  /\ output.value = << <<"b", " ", ">", " ", "2">>, <<"b", " ", ">", " ", "1">>, <<"a">> >>

(***************************************************************************)
(* reorganize_isystem                                                      *)
(***************************************************************************)
ISystem == <<"-", "i", "s", "y", "s", "t", "e", "m">>

RECURSIVE scan_args(_, _, _, _, _)
\* the for loop over range(len(args)) with its skip flag
scan_args(args, k, skip, remainder, includes) ==
  IF k > Len(args) THEN Success([remainder |-> remainder, includes |-> includes])
  ELSE IF skip THEN scan_args(args, k + 1, FALSE, remainder, includes)
  ELSE IF args[k] = ISystem
       THEN IF k + 1 > Len(args) THEN Failure("index out of range")
            ELSE scan_args(args, k + 1, TRUE, remainder, Append(includes, args[k + 1]))
  ELSE scan_args(args, k + 1, FALSE, Append(remainder, args[k]), includes)

\* a key that puts the shortest path first
key_less_shortest_first(x, y) ==
  Len(x) < Len(y) \/ (Len(x) = Len(y) /\ StrLess(x, y))

\* (-len(x), x) < (-len(y), y)
key_less(x, y) ==
  Len(x) > Len(y) \/ (Len(x) = Len(y) /\ StrLess(x, y))

\* x put into the sorted list s, behind the items that are not greater
RECURSIVE insert_sorted(_, _)
insert_sorted(s, x) ==
  IF s = <<>> THEN <<x>>
  ELSE IF key_less(x, s[1]) THEN <<x>> \o s
  ELSE <<s[1]>> \o insert_sorted(Tail(s), x)

RECURSIVE sort_from(_, _, _)
\* includes.sort(key=lambda item: (-len(item), item)), a stable sort
sort_from(s, k, sorted) ==
  IF k > Len(s) THEN sorted ELSE sort_from(s, k + 1, insert_sorted(sorted, s[k]))

RECURSIVE isystem_pairs(_)
\* chain.from_iterable of the ('-isystem', k) tuples
isystem_pairs(includes) ==
  IF includes = <<>> THEN <<>>
  ELSE <<ISystem, includes[1]>> \o isystem_pairs(Tail(includes))

reorganize_isystem(args) ==
  LET scanned == scan_args(args, 1, FALSE, <<>>, <<>>) IN
  IF scanned.status = "error" THEN scanned
  ELSE LET includes == Reverse(uniq(Reverse(scanned.value.includes)))
       IN Success(scanned.value.remainder \o isystem_pairs(sort_from(includes, 1, <<>>)))

(***************************************************************************)
(* reorganize_isystem applied to bounded inputs                            *)
(***************************************************************************)
MaxArgs == 6

SystemPaths == {<<"/", "a">>, <<"/", "b">>, <<"/", "a", "/", "b">>}

OtherArgs == {<<"-", "c">>}

InitIsystem ==
  /\ IdleRun
  /\ pc = "call"
  /\ input \in SeqsUpTo({ISystem} \cup SystemPaths \cup OtherArgs, MaxArgs)
  /\ output = NotStarted

CallReorganizeIsystem ==
  /\ pc = "call"
  /\ output' = reorganize_isystem(input)
  /\ pc' = "done"
  /\ UNCHANGED <<runvars, input, heap, constructed>>

SpecIsystem == InitIsystem /\ [][CallReorganizeIsystem]_vars

\* every '-isystem' of args, read left to right, is followed by a path
RECURSIVE EachFlagHasPath(_)
EachFlagHasPath(args) ==
  IF args = <<>> THEN TRUE
  ELSE IF args[1] = <<"-", "i", "s", "y", "s", "t", "e", "m">>
       THEN Len(args) >= 2 /\ args[2] \in SystemPaths
            /\ EachFlagHasPath(SubSeq(args, 3, Len(args)))
  ELSE EachFlagHasPath(Tail(args))

\* the arguments that are neither the flag nor the path following a flag
RECURSIVE PlainArgs(_)
PlainArgs(args) ==
  IF args = <<>> THEN <<>>
  ELSE IF args[1] = <<"-", "i", "s", "y", "s", "t", "e", "m">>
       THEN PlainArgs(SubSeq(args, 3, Len(args)))
  ELSE <<args[1]>> \o PlainArgs(Tail(args))

\* the paths that follow a flag
RECURSIVE FlaggedPaths(_)
FlaggedPaths(args) ==
  IF args = <<>> THEN {}
  ELSE IF args[1] = <<"-", "i", "s", "y", "s", "t", "e", "m">>
       THEN {args[2]} \cup FlaggedPaths(SubSeq(args, 3, Len(args)))
  ELSE FlaggedPaths(Tail(args))

\* C7: when every '-isystem' is followed by a path, the result is the other
\* arguments in their order, then one ('-isystem', path) pair per distinct
\* system path, by descending path length and ascending lexical order among
\* equal lengths; no path twice, none lost.
C7_SystemIncludesSorted ==
  (pc = "done" /\ EachFlagHasPath(input)) =>
    LET r == output.value
        plain == PlainArgs(input)
        n == Cardinality(FlaggedPaths(input))
        path(j) == r[Len(plain) + 2 * j]
    IN /\ output.status = "ok"
       /\ Len(r) = Len(plain) + 2 * n
       /\ SubSeq(r, 1, Len(plain)) = plain
       /\ \A j \in 1..n : r[Len(plain) + 2 * j - 1] = <<"-", "i", "s", "y", "s", "t", "e", "m">>
       /\ {path(j) : j \in 1..n} = FlaggedPaths(input)
       /\ \A j, k \in 1..n :
            j < k => \/ Len(path(j)) > Len(path(k))
                     \/ Len(path(j)) = Len(path(k)) /\ StrLess(path(j), path(k))

\* a short path given twice around a longer one
C7_Witness ==
  /\ pc = "done"
  /\ input = <<ISystem, <<"/", "b">>, ISystem, <<"/", "a", "/", "b">>, ISystem, <<"/", "b">>>>
  /\ output.value = <<ISystem, <<"/", "a", "/", "b">>, ISystem, <<"/", "b">>>>

\* two paths of one length given in descending lexical order, a plain
\* argument between them
C7_WitnessTie ==
  /\ pc = "done"
  /\ input = <<ISystem, <<"/", "b">>, <<"-", "c">>, ISystem, <<"/", "a">>>>
  /\ output.value = <<<<"-", "c">>, ISystem, <<"/", "a">>, ISystem, <<"/", "b">>>>

(***************************************************************************)
(* utils.find_file.  The file system is the set of the paths that exist;   *)
(* subpaths hold no glob characters, so glob.glob(k) is [k] when k exists  *)
(* and [] when it does not.                                                *)
(***************************************************************************)
\* the path strings used below
UsrPath == <<"/", "u", "s", "r">>
UsrLocalPath == <<"/", "u", "s", "r", "/", "l", "o", "c", "a", "l">>
OptLocalPath == <<"/", "o", "p", "t", "/", "l", "o", "c", "a", "l">>
PathA == <<"/", "a">>
PathB == <<"/", "b">>
PathC == <<"/", "c">>
LibSub == <<"l", "i", "b">>
LocalSub == <<"l", "o", "c", "a", "l">>

DEFAULT_PREFIXES == <<UsrPath, UsrLocalPath, OptLocalPath>>

RECURSIVE str_split(_, _, _)
\* s.split(sep) for a one-character separator
str_split(s, sep, piece) ==
  IF s = <<>> THEN <<piece>>
  ELSE IF s[1] = sep THEN <<piece>> \o str_split(Tail(s), sep, <<>>)
  ELSE str_split(Tail(s), sep, Append(piece, s[1]))

\* os.path.join(a, b)
os_path_join(a, b) ==
  IF b # <<>> /\ b[1] = "/" THEN b
  ELSE IF a = <<>> \/ a[Len(a)] = "/" THEN a \o b
  ELSE a \o <<"/">> \o b

\* os.path.exists(path)
os_path_exists(fs, path) == path \in fs

\* glob.glob(k) for a pattern without glob characters
glob(fs, k) == IF k # <<>> /\ os_path_exists(fs, k) THEN <<k>> ELSE <<>>

\* the default prefixes searched before the caller's and the environment's
search_defaults_first(environ, prefixes) ==
  DEFAULT_PREFIXES
  \o (IF prefixes # <<>> THEN prefixes ELSE <<>>)
  \o (IF environ.set THEN str_split(environ.value, ":", <<>>) ELSE <<>>)

\* search, as the three priorities leave it
search_priorities(environ, prefixes) ==
  (IF environ.set THEN str_split(environ.value, ":", <<>>) ELSE <<>>)
  \o (IF prefixes # <<>> THEN prefixes ELSE <<>>)
  \o DEFAULT_PREFIXES

RECURSIVE with_subpaths(_, _)
\* for p in subpaths: subsearch.append(join(s, p)), for one s
with_subpaths(prefix, subpaths) ==
  IF subpaths = <<>> THEN <<>>
  ELSE <<os_path_join(prefix, subpaths[1])>> \o with_subpaths(prefix, Tail(subpaths))

RECURSIVE subsearch(_, _)
\* the exhaustive combination of paths and subpaths
subsearch(search, subpaths) ==
  IF search = <<>> THEN <<>>
  ELSE with_subpaths(search[1], subpaths) \o <<search[1]>> \o subsearch(Tail(search), subpaths)

RECURSIVE glob_all(_, _)
\* for k in search: tmp += glob.glob(k)
glob_all(fs, search) ==
  IF search = <<>> THEN <<>> ELSE glob(fs, search[1]) \o glob_all(fs, Tail(search))

RECURSIVE existing_candidates(_, _, _)
\* the last loop of find_file
existing_candidates(fs, search, name) ==
  IF search = <<>> THEN <<>>
  ELSE (IF os_path_exists(fs, os_path_join(search[1], name))
        THEN <<os_path_join(search[1], name)>> ELSE <<>>)
       \o existing_candidates(fs, Tail(search), name)

find_file(environ, fs, name, subpaths, prefixes) ==
  LET search == uniq(search_priorities(environ, prefixes))
      combined == IF subpaths # <<>> THEN subsearch(search, subpaths) ELSE search
  IN existing_candidates(fs, glob_all(fs, combined), name)

(***************************************************************************)
(* find_file applied to bounded inputs                                     *)
(***************************************************************************)
MaxFiles == 2

FileName == <<"f">>

\* the entries BOB_PREFIX_PATH is made of, when it is set
EnvEntries == {<<>>, <<PathA>>, <<PathA, PathB>>, <<PathB, PathA>>, <<PathB, PathB, UsrPath>>}

PrefixChoices == {<<>>, <<PathC>>, <<PathA, PathC>>, <<PathC, OptLocalPath, PathC>>}

SubpathChoices == {<<>>, <<LibSub>>, <<LibSub, LocalSub>>, <<LocalSub, LibSub>>}

AllPrefixes == {PathA, PathB, PathC, UsrPath, UsrLocalPath, OptLocalPath}

\* files find_file may look for: one in each prefix, some under a subpath
CandidateFiles ==
  {d \o <<"/">> \o FileName : d \in AllPrefixes}
  \cup {d \o <<"/">> \o LibSub \o <<"/">> \o FileName : d \in {PathA, PathC, UsrPath}}
  \cup {UsrPath \o <<"/">> \o LocalSub \o <<"/">> \o FileName}

\* directories that may exist without holding the file
EmptyDirectories == {PathB, OptLocalPath}

\* the directory a file or directory is in ("/" has none)
RECURSIVE Parent(_)
Parent(path) ==
  IF path = <<>> THEN <<>>
  ELSE IF path[Len(path)] = "/" THEN SubSeq(path, 1, Len(path) - 1)
  ELSE Parent(SubSeq(path, 1, Len(path) - 1))

RECURSIVE Ancestors(_)
Ancestors(path) ==
  IF Parent(path) = <<>> THEN {} ELSE {Parent(path)} \cup Ancestors(Parent(path))

\* a file system: some candidate files or empty directories, and the
\* directories they are in
FileSystems ==
  {files \cup UNION {Ancestors(f) : f \in files} :
     files \in {x \in SUBSET (CandidateFiles \cup EmptyDirectories) : Cardinality(x) <= MaxFiles}}

Environments ==
  {[set |-> FALSE, value |-> <<>>]}
  \cup {[set |-> TRUE, value |-> Join(e, <<":">>)] : e \in EnvEntries}

InitFind ==
  /\ IdleRun
  /\ pc = "call"
  /\ input \in [environ : Environments, fs : FileSystems,
                subpaths : SubpathChoices, prefixes : PrefixChoices]
  /\ output = NotStarted

CallFindFile ==
  /\ pc = "call"
  /\ output' = Success(find_file(input.environ, input.fs, FileName,
                                 input.subpaths, input.prefixes))
  /\ pc' = "done"
  /\ UNCHANGED <<runvars, input, heap, constructed>>

SpecFind == InitFind /\ [][CallFindFile]_vars

\* the entries of q without those that occurred before
FirstOccurrences(q) ==
  LET kept == SelectSeq([k \in 1..Len(q) |-> k], LAMBDA k : \A j \in 1..(k-1) : q[j] # q[k])
  IN [k \in 1..Len(kept) |-> q[kept[k]]]

\* the candidates in search order: for each prefix its subpaths, then itself
CandidatesInOrder(prefixes, subpaths) ==
  LET n == Len(subpaths) + 1 IN
  [k \in 1..(Len(prefixes) * n) |->
     LET d == prefixes[((k - 1) \div n) + 1]
         j == ((k - 1) % n) + 1
     IN IF j < n THEN d \o <<"/">> \o subpaths[j] \o <<"/", "f">> ELSE d \o <<"/", "f">>]

\* C8: find_file searches the entries of BOB_PREFIX_PATH, then the given
\* prefixes, then /usr, /usr/local, /opt/local, a repeated prefix only at
\* its first position, for each prefix the subpaths in order and then the
\* prefix itself, and returns all existing candidates in that order.
C8_SearchOrder ==
  pc = "done" =>
    \A e \in EnvEntries \cup {<<>>} :
      (IF input.environ.set THEN e # <<>> /\ input.environ.value = Join(e, <<":">>)
                            ELSE e = <<>>)
      => LET order == FirstOccurrences(
                        e \o input.prefixes
                          \o << <<"/", "u", "s", "r">>,
                                <<"/", "u", "s", "r", "/", "l", "o", "c", "a", "l">>,
                                <<"/", "o", "p", "t", "/", "l", "o", "c", "a", "l">> >>)
         IN output.value = SelectSeq(CandidatesInOrder(order, input.subpaths),
                                     LAMBDA c : c \in input.fs)

\* BOB_PREFIX_PATH=/b:/a, prefixes /a and /c, subpaths lib and local; the
\* file exists as /c/f and as /a/lib/f
C8_Witness ==
  /\ pc = "done"
  /\ input.environ = [set |-> TRUE, value |-> <<"/", "b", ":", "/", "a">>]
  /\ input.prefixes = <<PathA, PathC>>
  /\ input.subpaths = <<LibSub, LocalSub>>
  /\ <<"/", "c", "/", "f">> \in input.fs
  /\ <<"/", "a", "/", "l", "i", "b", "/", "f">> \in input.fs
  /\ output.value = << <<"/", "a", "/", "l", "i", "b", "/", "f">>, <<"/", "c", "/", "f">> >>

\* /usr/local/f is found under /usr with subpath local and in /usr/local
C8_WitnessTwice ==
  /\ pc = "done"
  /\ input.subpaths = <<LibSub, LocalSub>>
  /\ output.value = << UsrLocalPath \o <<"/", "f">>, UsrLocalPath \o <<"/", "f">> >>

(***************************************************************************)
(* generate_self_macros                                                    *)
(***************************************************************************)
\* the value None of an optional string argument
None == <<"None">>

\* the position of the last sep in s (0 when there is none)
LastIndexOf(s, sep) ==
  IF \E k \in 1..Len(s) : s[k] = sep
  THEN CHOOSE k \in 1..Len(s) : s[k] = sep /\ \A j \in (k+1)..Len(s) : s[j] # sep
  ELSE 0

\* s.rsplit(sep, 1)
rsplit1(s, sep) ==
  IF LastIndexOf(s, sep) = 0 THEN <<s>>
  ELSE <<SubSeq(s, 1, LastIndexOf(s, sep) - 1), SubSeq(s, LastIndexOf(s, sep) + 1, Len(s))>>

\* '"%s"' % x
Quoted(x) == <<"\"">> \o x \o <<"\"">>

\* the entry name as sys.version_info[0] decides it
EntryName(python3, module) ==
  IF python3 THEN <<"P", "y", "I", "n", "i", "t", "_">> \o module ELSE <<"i", "n", "i", "t">> \o module

\* the self macros computed whether or not a version was given
generate_self_macros_unguarded(python3, extname, version) ==
  LET s == rsplit1(extname, ".") IN
  IF Len(s) < 2 THEN Failure("index out of range")
  ELSE Success(
         << <<"BOB_EXT_MODULE_PREFIX", Quoted(s[1])>>,
            <<"BOB_EXT_MODULE_NAME", Quoted(s[2])>>,
            <<"BOB_EXT_ENTRY_NAME", EntryName(python3, s[2])>> >>
         \o (IF version # None /\ version # <<>>
             THEN << <<"BOB_EXT_MODULE_VERSION", Quoted(version)>> >> ELSE <<>>))

generate_self_macros(python3, extname, version) ==
  IF version = None THEN Success(<<>>)
  ELSE
    LET s == rsplit1(extname, ".") IN
    IF Len(s) < 2 THEN Failure("index out of range")
    ELSE Success(
           << <<"BOB_EXT_MODULE_PREFIX", Quoted(s[1])>>,
              <<"BOB_EXT_MODULE_NAME", Quoted(s[2])>>,
              <<"BOB_EXT_ENTRY_NAME", EntryName(python3, s[2])>> >>
           \o (IF version # <<>>
               THEN << <<"BOB_EXT_MODULE_VERSION", Quoted(version)>> >> ELSE <<>>))

(***************************************************************************)
(* Extension.__init__.  The keyword arguments are a record holding the     *)
(* keys that were passed.  The system the constructor queries is a record  *)
(* sys: the platform, the Python major version, what pkg-config and the    *)
(* Boost probe resolve, and where the sibling packages are installed.      *)
(***************************************************************************)
\* s.strip()
RECURSIVE lstrip(_)
lstrip(s) == IF s # <<>> /\ IsSpace(s[1]) THEN lstrip(Tail(s)) ELSE s

strip(s) == Reverse(lstrip(Reverse(lstrip(s))))

\* s.lower()
lower(s) ==
  [k \in 1..Len(s) |-> CASE s[k] = "A" -> "a" [] s[k] = "B" -> "b" [] s[k] = "O" -> "o"
                         [] OTHER -> s[k]]

startswith(s, prefix) == Len(prefix) <= Len(s) /\ SubSeq(s, 1, Len(prefix)) = prefix

\* s.replace('.', '_')
dots_to_underscores(s) == [k \in 1..Len(s) |-> IF s[k] = "." THEN "_" ELSE s[k]]

\* os.path.dirname(path)
dirname(path) ==
  IF LastIndexOf(path, "/") = 0 THEN <<>>
  ELSE IF LastIndexOf(path, "/") = 1 THEN <<"/">>
  ELSE SubSeq(path, 1, LastIndexOf(path, "/") - 1)

\* a str argument is taken as a list of one string
as_list(arg) == IF arg.is_str THEN <<arg.value>> ELSE arg.value

\* [k.strip().lower() for k in names]
stripped_lower(names) == [k \in 1..Len(names) |-> lower(strip(names[k]))]

BoostName == <<"b", "o", "o", "s", "t">>

\* resource_filename(__name__, 'include')
SelfIncludeDir == <<"/", "s", "/", "i", "n", "c", "l", "u", "d", "e">>

RECURSIVE bob_libraries_from(_, _, _, _)
\* the loop of get_bob_libraries over the normalized package names
bob_libraries_from(sys, packages, k, acc) ==
  IF k > Len(packages) THEN Success(acc)
  ELSE IF packages[k] \notin DOMAIN sys.bob THEN Failure("not found")
  ELSE
    LET found == sys.bob[packages[k]].found_libraries
        lib_name == dots_to_underscores(packages[k])
    IN bob_libraries_from(sys, packages, k + 1,
         [includes |-> Append(acc.includes, sys.bob[packages[k]].root \o <<"/", "i", "n", "c", "l", "u", "d", "e">>),
          libraries |-> IF found # <<>> THEN Append(acc.libraries, lib_name)
                        ELSE acc.libraries,
          library_directories |-> IF found # <<>>
                                  THEN Append(acc.library_directories, dirname(found[1]))
                                  ELSE acc.library_directories])

get_bob_libraries(sys, bob_packages) ==
  IF bob_packages = None
  THEN Success([includes |-> <<>>, libraries |-> <<>>, library_directories |-> <<>>])
  ELSE
    LET normalized == normalize_requirements(stripped_lower(bob_packages)) IN
    IF normalized.status = "error" THEN normalized
    ELSE bob_libraries_from(sys, normalized.value, 1,
           [includes |-> <<>>, libraries |-> <<>>, library_directories |-> <<>>])

RECURSIVE extract_boost(_, _, _)
\* for i, pkg in enumerate(packages): ... del packages[i], the list
\* shrinking under the running index
extract_boost(packages, i, boost_req) ==
  IF i > Len(packages) THEN [packages |-> packages, boost_req |-> boost_req]
  ELSE IF startswith(packages[i], BoostName)
       THEN extract_boost(SubSeq(packages, 1, i - 1) \o SubSeq(packages, i + 1, Len(packages)),
                          i + 1, packages[i])
  ELSE extract_boost(packages, i + 1, boost_req)

\* the names of the libraries of one resolved package
package_libs(sys, pkg) ==
  LET plain == sys.pkg[pkg.name].libraries IN
  IF startswith(pkg.name, <<"b", "o", "b", "-">>)
  THEN IF sys.platform = "Darwin"
       THEN Success([k \in 1..Len(plain) |-> plain[k] \o <<".">> \o pkg.version])
       ELSE IF sys.platform = "Linux"
       THEN Success([k \in 1..Len(plain) |->
                       <<":", "l", "i", "b">> \o plain[k] \o <<".", "s", "o", ".">> \o pkg.version])
       ELSE Failure("supports only MacOSX and Linux builds")
  ELSE Success(plain)

RECURSIVE add_packages(_, _, _, _, _)
\* for pkg in pkgs: the macros, include directories, library directories
\* and libraries of each resolved package, in order
add_packages(sys, pkgs, k, user_includes, acc) ==
  IF k > Len(pkgs) THEN Success(acc)
  ELSE
    LET pkg == pkgs[k]
        info == sys.pkg[pkg.name]
        fresh == SelectSeq(uniq(info.include_directories),
                           LAMBDA d : d \notin Range(user_includes)
                                      /\ d \notin Range(acc.pkg_includes))
        decorated == package_libs(sys, pkg)
    IN IF decorated.status = "error" THEN decorated
       ELSE add_packages(sys, pkgs, k + 1, user_includes,
              [define_macros |-> acc.define_macros \o info.macros,
               pkg_macros |-> acc.pkg_macros \o info.macros,
               system_includes |-> acc.system_includes \o fresh,
               pkg_includes |-> acc.pkg_includes \o fresh,
               library_dirs |-> acc.library_dirs \o info.library_directories,
               pkg_library_directories |->
                 acc.pkg_library_directories \o info.library_directories,
               libraries |-> acc.libraries \o decorated.value,
               pkg_libraries |-> acc.pkg_libraries \o decorated.value])

\* kwargs[key] = parameters[key] + kwargs[key] when the caller gave the key
merged(kw, key, ours) == IF key \in DOMAIN kw THEN ours \o kw[key] ELSE ours

\* the runtime path that would also mirror the sibling library directories
runtime_path_with_bob(given, library_dirs, bob_library_dirs) ==
  uniq(given \o library_dirs \o bob_library_dirs)

\* On Linux: kwargs['runtime_library_dirs'] += kwargs['library_dirs'], made
\* unique, before bob_library_dirs is added to kwargs['library_dirs']
runtime_path(given, library_dirs, bob_library_dirs) == uniq(given \o library_dirs)

\* the part of the constructor after the Boost extraction: parameters is
\* filled from Boost and the packages, merged with the caller's values and
\* handed to the base class
assemble(sys, name, kw, packages, boost_req, boost_modules, bob, self_macros) ==
  LET user_includes == IF "include_dirs" \in DOMAIN kw THEN kw.include_dirs ELSE <<>>
      given_system_includes ==
        IF "system_include_dirs" \in DOMAIN kw THEN kw.system_include_dirs ELSE <<>>
      boost_include ==
        IF boost_req # <<>> /\ sys.boost.include_directory \notin Range(user_includes)
        THEN <<sys.boost.include_directory>> ELSE <<>>
      boost_libdirs ==
        IF boost_req # <<>> /\ boost_modules # <<>>
        THEN [k \in 1..Len(boost_modules) |-> sys.boost.libconfig[boost_modules[k]].directory]
        ELSE <<>>
      boost_libraries ==
        IF boost_req # <<>> /\ boost_modules # <<>>
        THEN [k \in 1..Len(boost_modules) |-> sys.boost.libconfig[boost_modules[k]].library]
        ELSE <<>>
      after_boost ==
        [define_macros |-> self_macros \o (IF boost_req # <<>> THEN sys.boost.macros ELSE <<>>),
         pkg_macros |-> <<>>,
         system_includes |-> given_system_includes \o boost_include,
         pkg_includes |-> boost_include,
         library_dirs |-> boost_libdirs,
         pkg_library_directories |-> boost_libdirs,
         libraries |-> bob.libraries \o boost_libraries,
         pkg_libraries |-> boost_libraries]
      pkgs == check_packages(sys.installed, packages)
  IN
  IF boost_req # <<>> /\ ~sys.boost.found THEN Failure("not found")
  ELSE IF pkgs.status = "error" THEN pkgs
  ELSE
    LET added == add_packages(sys, pkgs.value, 1, user_includes, after_boost) IN
    IF added.status = "error" THEN added
    ELSE
      LET p == added.value
          extra_compile_args ==
            <<<<"-", "s", "t", "d", "=", "c", "+", "+", "0", "x">>>>
            \o (IF sys.platform = "Darwin" THEN <<<<"-", "W", "n", "o", "-", "#", "w", "a", "r", "n", "i", "n", "g", "s">>>> ELSE <<>>)
            \o isystem_pairs(p.system_includes)
          define_macros == uniq(merged(kw, "define_macros", p.define_macros))
          library_dirs == uniq(merged(kw, "library_dirs", p.library_dirs))
          libraries == uniq(merged(kw, "libraries", p.libraries))
          \* the caller's include_dirs list, when given, is the list the
          \* default is appended to, and user_includes names the same list
          own_includes == Append(user_includes, SelfIncludeDir)
          all_includes ==
            uniq((IF "include_dirs" \in DOMAIN kw THEN own_includes ELSE <<>>)
                 \o bob.includes \o own_includes)
          reorganized == reorganize_isystem(merged(kw, "extra_compile_args", extra_compile_args))
          runtime_library_dirs ==
            runtime_path(IF "runtime_library_dirs" \in DOMAIN kw
                         THEN kw.runtime_library_dirs ELSE <<>>,
                         library_dirs, bob.library_directories)
      IN IF reorganized.status = "error" THEN reorganized
         ELSE Success(
           [name |-> name,
            define_macros |-> define_macros,
            extra_compile_args |-> reorganized.value,
            libraries |-> libraries,
            library_dirs |-> library_dirs \o bob.library_directories,
            include_dirs |-> all_includes,
            language |-> <<"c", "+", "+">>,
            has_runtime_library_dirs |->
              sys.platform = "Linux" \/ "runtime_library_dirs" \in DOMAIN kw,
            runtime_library_dirs |->
              IF sys.platform = "Linux" THEN runtime_library_dirs
              ELSE IF "runtime_library_dirs" \in DOMAIN kw THEN kw.runtime_library_dirs
              ELSE <<>>,
            pkg_includes |-> p.pkg_includes,
            pkg_libraries |-> p.pkg_libraries,
            pkg_library_directories |-> p.pkg_library_directories,
            pkg_macros |-> p.pkg_macros])

\* Extension.__init__(self, name, sources, **kwargs)
Extension_init(sys, name, kw) ==
  LET normalized ==
        normalize_requirements(
          stripped_lower(IF "packages" \in DOMAIN kw THEN as_list(kw.packages) ELSE <<>>))
      bob == get_bob_libraries(sys, IF "bob_packages" \in DOMAIN kw THEN kw.bob_packages
                                    ELSE None)
      boost_modules == IF "boost_modules" \in DOMAIN kw THEN as_list(kw.boost_modules)
                       ELSE <<>>
      version == IF "version" \in DOMAIN kw THEN kw.version ELSE None
      self_macros == generate_self_macros(sys.python3, name, version)
  IN
  IF normalized.status = "error" THEN normalized
  ELSE IF bob.status = "error" THEN bob
  ELSE IF self_macros.status = "error" THEN self_macros
  ELSE
    LET extracted == extract_boost(normalized.value, 1, <<>>)
        boost_req == IF boost_modules # <<>> /\ extracted.boost_req = <<>>
                     THEN <<"b", "o", "o", "s", "t", " ", ">", "=", " ", "1", ".", "0">> ELSE extracted.boost_req
    IN assemble(sys, name, kw, extracted.packages, boost_req, boost_modules,
                bob.value, self_macros.value)

(***************************************************************************)
(* Extension.__init__ applied to bounded inputs: the macros                *)
(***************************************************************************)
MaxUserMacros == 2

ExtensionQualifiedNames == {<<"a", ".", "b">>, <<"a", ".", "b", ".", "c">>, <<"a">>}

VersionChoices == {<<>>, <<"1", ".", "0">>}

\* macros a caller may pass; the second is also the module-name macro of a.b
UserMacros == {<<"X", <<"1">>>>, <<"BOB_EXT_MODULE_NAME", <<"\"", "b", "\"">>>>}

PackageChoices ==
  {[is_str |-> TRUE, value |-> <<"a">>],
   [is_str |-> FALSE, value |-> << <<"A", " ">>, <<"b", " ", ">", " ", "1">> >>]}

\* what pkg-config knows of the packages a and b
PkgInfo ==
  [n \in PackageNames |->
     IF n = <<"a">>
     THEN [macros |-> << <<"HAVE_A", <<"1">>>> >>,
           include_directories |-> << <<"/", "a">> >>,
           library_directories |-> << <<"/", "a", "/", "b">> >>,
           libraries |-> << <<"a">> >>]
     ELSE [macros |-> << <<"X", <<"1">>>>, <<"HAVE_B", <<"1">>>> >>,
           include_directories |-> << <<"/", "b">>, <<"/", "a">> >>,
           library_directories |-> << <<"/", "b">> >>,
           libraries |-> << <<"b">> >>]]

BoostInfo ==
  [found |-> TRUE,
   include_directory |-> <<"/", "b", "o">>,
   macros |-> << <<"BOOST_VERSION", <<"1">>>> >>,
   libconfig |-> [m \in {<<"s">>} |->
                    [directory |-> <<"/", "b", "o", "/", "s">>,
                     library |-> <<"b", "o", "o", "s", "t", "_", "s">>]]]

Systems ==
  {[platform |-> pf, python3 |-> py, installed |-> i, pkg |-> PkgInfo,
    boost |-> BoostInfo, bob |-> <<>>] :
     pf \in {"Linux", "Darwin"}, py \in BOOLEAN,
     i \in {x \in Installations : x[<<"a">>] = <<"2">>}}

\* the records holding some of the keyword arguments
MacroKeywords ==
  {v @@ m @@ pk @@ b :
     v \in {<<>>} \cup {[version |-> x] : x \in VersionChoices},
     m \in {<<>>} \cup {[define_macros |-> x] : x \in SeqsUpTo(UserMacros, MaxUserMacros)},
     pk \in {<<>>} \cup {[packages |-> x] : x \in PackageChoices},
     b \in {<<>>, [boost_modules |-> [is_str |-> TRUE, value |-> <<"s">>]]}}

InitMacros ==
  /\ IdleRun
  /\ pc = "call"
  /\ input \in [sys : Systems, name : ExtensionQualifiedNames, kw : MacroKeywords]
  /\ output = NotStarted

ConstructExtension ==
  /\ pc = "call"
  /\ output' = Extension_init(input.sys, input.name, input.kw)
  /\ pc' = "done"
  /\ UNCHANGED <<runvars, input, heap, constructed>>

SpecMacros == InitMacros /\ [][ConstructExtension]_vars

\* the part of a dotted name before its last dot
PrefixOf(name) ==
  LET k == CHOOSE x \in 1..Len(name) : name[x] = "." /\ \A y \in (x+1)..Len(name) : name[y] # "."
  IN SubSeq(name, 1, k - 1)

\* the part behind its last dot
ModuleOf(name) ==
  LET k == CHOOSE x \in 1..Len(name) : name[x] = "." /\ \A y \in (x+1)..Len(name) : name[y] # "."
  IN SubSeq(name, k + 1, Len(name))

\* the prefix, name and entry-point macros of the assembled target
HasSelfMacros ==
  (\E k \in 1..Len(input.name) : input.name[k] = ".") /\
  LET macros == {output.value.define_macros[k] : k \in 1..Len(output.value.define_macros)}
      module == ModuleOf(input.name)
  IN /\ <<"BOB_EXT_MODULE_PREFIX", <<"\"">> \o PrefixOf(input.name) \o <<"\"">>>> \in macros
     /\ <<"BOB_EXT_MODULE_NAME", <<"\"">> \o module \o <<"\"">>>> \in macros
     /\ <<"BOB_EXT_ENTRY_NAME",
          (IF input.sys.python3 THEN <<"P", "y", "I", "n", "i", "t", "_">> ELSE <<"i", "n", "i", "t">>) \o module>> \in macros

HasVersionMacro ==
  \E k \in 1..Len(output.value.define_macros) :
    output.value.define_macros[k][1] = "BOB_EXT_MODULE_VERSION"

\* C10 as stated, for dotted names: every assembled Extension has the
\* module-prefix, the module-name and the entry-point macro, with or
\* without a version, and the module-version macro exactly when a version
\* was supplied.
C10_SelfMacrosAlways ==
  (pc = "done" /\ output.status = "ok"
     /\ \E k \in 1..Len(input.name) : input.name[k] = ".") =>
    /\ HasSelfMacros
    /\ HasVersionMacro <=> "version" \in DOMAIN input.kw

\* C10 amended: an Extension assembled with a version has the three macros,
\* and the module-version macro, quoting the version, exactly when the
\* version is not the empty string; an Extension assembled without a
\* version gets none of the four: its BOB_EXT_ macros are the caller's own.
C10_SelfMacrosWithVersion ==
  (pc = "done" /\ output.status = "ok") =>
    IF "version" \in DOMAIN input.kw
    THEN /\ HasSelfMacros
         /\ HasVersionMacro <=> input.kw.version # <<>>
         /\ input.kw.version # <<>> =>
              \E k \in 1..Len(output.value.define_macros) :
                output.value.define_macros[k] =
                  <<"BOB_EXT_MODULE_VERSION", <<"\"">> \o input.kw.version \o <<"\"">>>>
    ELSE \A k \in 1..Len(output.value.define_macros) :
           output.value.define_macros[k][1] \in
               {"BOB_EXT_MODULE_PREFIX", "BOB_EXT_MODULE_NAME",
                "BOB_EXT_ENTRY_NAME", "BOB_EXT_MODULE_VERSION"}
           => /\ "define_macros" \in DOMAIN input.kw
              /\ \E j \in 1..Len(input.kw.define_macros) :
                   input.kw.define_macros[j] = output.value.define_macros[k]

\* a.b.c assembled with version 1.0, a package and a caller's macro
C10_Witness ==
  /\ pc = "done"
  /\ output.status = "ok"
  /\ input.name = <<"a", ".", "b", ".", "c">>
  /\ "version" \in DOMAIN input.kw
  /\ input.kw.version = <<"1", ".", "0">>
  /\ "packages" \in DOMAIN input.kw
  /\ "define_macros" \in DOMAIN input.kw
  /\ input.kw.define_macros = << <<"X", <<"1">>>> >>
  /\ input.sys.python3
  /\ output.value.define_macros =
       << <<"BOB_EXT_MODULE_PREFIX", <<"\"", "a", ".", "b", "\"">>>>,
          <<"BOB_EXT_MODULE_NAME", <<"\"", "c", "\"">>>>,
          <<"BOB_EXT_ENTRY_NAME", <<"P", "y", "I", "n", "i", "t", "_">> \o <<"c">>>>,
          <<"BOB_EXT_MODULE_VERSION", <<"\"", "1", ".", "0", "\"">>>>,
          <<"HAVE_A", <<"1">>>>,
          <<"X", <<"1">>>> >>

\* a.b assembled without a version: no self macro at all
C10_WitnessNoVersion ==
  /\ pc = "done"
  /\ output.status = "ok"
  /\ input.name = <<"a", ".", "b">>
  /\ "version" \notin DOMAIN input.kw
  /\ "packages" \notin DOMAIN input.kw
  /\ "boost_modules" \notin DOMAIN input.kw
  /\ "define_macros" \notin DOMAIN input.kw
  /\ output.value.define_macros = <<>>

(***************************************************************************)
(* Extension.__init__ applied to bounded inputs: the directory lists.      *)
(* The sibling packages bob.c and bob.i are installed under /c and /i.     *)
(***************************************************************************)
MaxSiblings == 2

BobC == <<"b", "o", "b", ".", "c">>

BobI == <<"b", "o", "b", ".", "i">>

\* where resource_filename and find_library resolve the sibling packages:
\* the library of bob.i is missing, lies in its own root, or lies beside
\* the library of bob.c
BobLayouts ==
  {[n \in {BobC, BobI} |->
      IF n = BobC
      THEN [root |-> <<"/", "c">>, found_libraries |-> << <<"/", "c", "/", "l">> >>]
      ELSE [root |-> <<"/", "i">>, found_libraries |-> found]] :
     found \in {<<>>, << <<"/", "i", "/", "l">> >>,
                << <<"/", "c", "/", "m">>, <<"/", "i", "/", "l">> >>}}

SiblingChoices ==
  {s \in SeqsUpTo({BobC, BobI}, MaxSiblings) : \A i, j \in 1..Len(s) : i # j => s[i] # s[j]}

DirectorySystems ==
  {[platform |-> pf, python3 |-> TRUE,
    installed |-> [n \in PackageNames |-> <<"2">>],
    pkg |-> PkgInfo, boost |-> BoostInfo, bob |-> layout] :
     pf \in {"Linux", "Darwin"}, layout \in BobLayouts}

UserIncludeDirs ==
  {<<>>, << <<"/", "u">> >>, << <<"/", "u">>, <<"/", "c", "/", "i", "n", "c", "l", "u", "d", "e">> >>}

UserLibraryDirs == {<< <<"/", "c">> >>, << <<"/", "l">>, <<"/", "a", "/", "b">>, <<"/", "l">> >>}

UserRuntimeDirs == {<< <<"/", "r">> >>, << <<"/", "l">>, <<"/", "r">>, <<"/", "l">> >>}

DirectoryKeywords ==
  {b @@ i @@ l @@ r @@ pk :
     b \in {<<>>} \cup {[bob_packages |-> x] : x \in SiblingChoices},
     i \in {<<>>} \cup {[include_dirs |-> x] : x \in UserIncludeDirs},
     l \in {<<>>} \cup {[library_dirs |-> x] : x \in UserLibraryDirs},
     r \in {<<>>} \cup {[runtime_library_dirs |-> x] : x \in UserRuntimeDirs},
     pk \in {<<>>, [packages |-> [is_str |-> TRUE, value |-> <<"a">>]]}}

InitDirectories ==
  /\ IdleRun
  /\ pc = "call"
  /\ input \in [sys : DirectorySystems, name : {<<"a", ".", "b">>}, kw : DirectoryKeywords]
  /\ output = NotStarted

SpecDirectories == InitDirectories /\ [][ConstructExtension]_vars

\* the include directories of the sibling packages the caller named
SiblingIncludes ==
  IF "bob_packages" \in DOMAIN input.kw
  THEN {input.sys.bob[n].root \o <<"/", "i", "n", "c", "l", "u", "d", "e">> :
          n \in Range(input.kw.bob_packages)}
  ELSE {}

\* C11: in the include_dirs of an assembled Extension every include
\* directory of a sibling package stands before every other include
\* directory, the caller's include_dirs and the package's own default
\* include directory among them.
C11_SiblingIncludesFirst ==
  (pc = "done" /\ output.status = "ok") =>
    \A i, j \in 1..Len(output.value.include_dirs) :
      (/\ output.value.include_dirs[i] \in SiblingIncludes
       /\ output.value.include_dirs[j] \notin SiblingIncludes) => i < j

\* what does hold: without include_dirs from the caller the sibling
\* includes stand first and the default include directory last
C11_SiblingIncludesFirstByDefault ==
  (pc = "done" /\ output.status = "ok" /\ "include_dirs" \notin DOMAIN input.kw) =>
    /\ Last(output.value.include_dirs) = SelfIncludeDir
    /\ \A i \in 1..(Len(output.value.include_dirs) - 1) :
         output.value.include_dirs[i] \in SiblingIncludes

\* no entry of the list occurs twice
NoDuplicates(list) == \A i, j \in 1..Len(list) : i # j => list[i] # list[j]

\* the entries of given stand in final in the order of their first
\* occurrence in given
FirstSeenOrder(given, final) ==
  \A i, j \in 1..Len(final) :
    (i < j /\ final[i] \in Range(given) /\ final[j] \in Range(given)) =>
      FirstIndex(given, final[i]) <= FirstIndex(given, final[j])

\* the caller's value of a keyword, the empty list when it was not passed
Given(key) == IF key \in DOMAIN input.kw THEN input.kw[key] ELSE <<>>

\* C12: every list handed to the base extension descriptor other than
\* extra_compile_args (define_macros, libraries, library_dirs, include_dirs,
\* and on Linux runtime_library_dirs) has no duplicate entry and keeps its
\* entries in first-seen order.
C12_ListsDeduplicated ==
  (pc = "done" /\ output.status = "ok") =>
    /\ NoDuplicates(output.value.define_macros)
    /\ NoDuplicates(output.value.libraries)
    /\ NoDuplicates(output.value.library_dirs)
    /\ NoDuplicates(output.value.include_dirs)
    /\ input.sys.platform = "Linux" => NoDuplicates(output.value.runtime_library_dirs)
    /\ FirstSeenOrder(output.value.pkg_library_directories \o Given("library_dirs"),
                      output.value.library_dirs)
    /\ FirstSeenOrder(Given("include_dirs"), output.value.include_dirs)
    /\ input.sys.platform = "Linux" =>
         FirstSeenOrder(Given("runtime_library_dirs"), output.value.runtime_library_dirs)

\* what does hold: only library_dirs can hold an entry twice
C12_OtherListsDeduplicated ==
  (pc = "done" /\ output.status = "ok") =>
    /\ NoDuplicates(output.value.define_macros)
    /\ NoDuplicates(output.value.libraries)
    /\ NoDuplicates(output.value.include_dirs)
    /\ input.sys.platform = "Linux" => NoDuplicates(output.value.runtime_library_dirs)
    /\ FirstSeenOrder(output.value.pkg_library_directories \o Given("library_dirs"),
                      output.value.library_dirs)
    /\ FirstSeenOrder(Given("include_dirs"), output.value.include_dirs)
    /\ input.sys.platform = "Linux" =>
         FirstSeenOrder(Given("runtime_library_dirs"), output.value.runtime_library_dirs)

\* the library directories of the sibling packages the caller named, as
\* get_bob_libraries returns them
SiblingLibraryDirs ==
  IF "bob_packages" \in DOMAIN input.kw
  THEN LET found(n) == input.sys.bob[input.kw.bob_packages[n]].found_libraries
           with_library == SelectSeq([n \in 1..Len(input.kw.bob_packages) |-> n],
                                     LAMBDA n : found(n) # <<>>)
       IN [k \in 1..Len(with_library) |-> dirname(found(with_library[k])[1])]
  ELSE <<>>

\* library_dirs as it stands before the sibling library directories are
\* added: the final list without its tail of sibling directories
LibraryDirsBeforeSiblings ==
  SubSeq(output.value.library_dirs, 1,
         Len(output.value.library_dirs) - Len(SiblingLibraryDirs))

\* the list without its repeated entries, first occurrences kept in order
FirstOccurrencesOf(list) ==
  SelectSeq([k \in 1..Len(list) |-> IF \E j \in 1..(k-1) : list[j] = list[k]
                                    THEN <<"repeated">> ELSE <<"first", list[k]>>],
            LAMBDA e : e[1] = "first")

\* C13: on Linux runtime_library_dirs is the caller's runtime_library_dirs
\* followed by library_dirs as it stands before the sibling library
\* directories are added, first occurrences only; the sibling library
\* directories are appended to library_dirs after that and are not mirrored.
\* On another platform runtime_library_dirs is as the caller supplied it.
C13_RuntimePathMirrorsLibraryDirs ==
  (pc = "done" /\ output.status = "ok") =>
    /\ output.value.library_dirs = LibraryDirsBeforeSiblings \o SiblingLibraryDirs
    /\ NoDuplicates(LibraryDirsBeforeSiblings)
    /\ IF input.sys.platform = "Linux"
       THEN /\ output.value.has_runtime_library_dirs
            /\ [k \in 1..Len(output.value.runtime_library_dirs) |->
                  <<"first", output.value.runtime_library_dirs[k]>>]
               = FirstOccurrencesOf(Given("runtime_library_dirs") \o LibraryDirsBeforeSiblings)
       ELSE /\ output.value.has_runtime_library_dirs
                 <=> "runtime_library_dirs" \in DOMAIN input.kw
            /\ output.value.runtime_library_dirs = Given("runtime_library_dirs")

\* on Linux: a caller's runtime path with a repeated entry, a resolved
\* package, and a sibling library directory that is not mirrored
C13_Witness ==
  /\ pc = "done"
  /\ output.status = "ok"
  /\ input.sys.platform = "Linux"
  /\ "packages" \in DOMAIN input.kw
  /\ Given("runtime_library_dirs") = << <<"/", "l">>, <<"/", "r">>, <<"/", "l">> >>
  /\ Given("library_dirs") = << <<"/", "l">>, <<"/", "a", "/", "b">>, <<"/", "l">> >>
  /\ Given("bob_packages") = <<BobC, BobI>>
  /\ output.value.library_dirs =
       << <<"/", "a", "/", "b">>, <<"/", "l">>, <<"/", "c">>, <<"/", "i">> >>
  /\ output.value.runtime_library_dirs =
       << <<"/", "l">>, <<"/", "r">>, <<"/", "a", "/", "b">> >>

\* on Darwin the caller's runtime path is handed on with its repeated entry
C13_WitnessOtherPlatform ==
  /\ pc = "done"
  /\ output.status = "ok"
  /\ input.sys.platform = "Darwin"
  /\ Given("library_dirs") = << <<"/", "c">> >>
  /\ output.value.runtime_library_dirs = << <<"/", "l">>, <<"/", "r">>, <<"/", "l">> >>

(***************************************************************************)
(* Extension.__init__ applied to package lists that name Boost             *)
(***************************************************************************)
MaxRequested == 3

\* the local list packages as check_packages receives it: the caller's
\* packages, normalized, after the loop that takes the Boost entries out
checked_packages(kw) ==
  LET normalized ==
        normalize_requirements(
          stripped_lower(IF "packages" \in DOMAIN kw THEN as_list(kw.packages) ELSE <<>>))
  IN IF normalized.status = "error" THEN normalized
     ELSE Success(extract_boost(normalized.value, 1, <<>>).packages)

\* 'boost > 1', 'boost < 2', and the packages a and b
RequestedPackages ==
  {BoostName \o <<" ", ">", " ", "1">>, BoostName \o <<" ", "<", " ", "2">>, <<"a">>, <<"b">>}

BoostKeywords ==
  {[packages |-> [is_str |-> FALSE, value |-> p]] @@ m :
     p \in SeqsUpTo(RequestedPackages, MaxRequested),
     m \in {<<>>, [boost_modules |-> [is_str |-> TRUE, value |-> <<"s">>]]}}

InitBoost ==
  /\ IdleRun
  /\ pc = "call"
  /\ input \in [sys : {s \in DirectorySystems : s.bob \in {CHOOSE l \in BobLayouts : TRUE}},
                name : {<<"a", ".", "b">>}, kw : BoostKeywords]
  /\ output = NotStarted

SpecBoost == InitBoost /\ [][ConstructExtension]_vars

\* the caller's packages as normalize_requirements returns them
NormalizedPackages == normalize_requirements(stripped_lower(as_list(input.kw.packages))).value

IsBoostEntry(pkg) == startswith(pkg, BoostName)

\* C14: the Boost extraction takes every entry whose name starts with
\* 'boost' out of the normalized package list and nothing else: no Boost
\* entry is passed on to check_packages, and the other entries are passed
\* on in their order.
C14_EveryBoostEntryExtracted ==
  pc = "done" =>
    /\ checked_packages(input.kw).status = "ok"
    /\ \A k \in 1..Len(checked_packages(input.kw).value) :
         ~IsBoostEntry(checked_packages(input.kw).value[k])
    /\ checked_packages(input.kw).value
         = SelectSeq(NormalizedPackages, LAMBDA pkg : ~IsBoostEntry(pkg))

\* what does hold: a list with at most one Boost entry loses exactly that
\* entry
C14_SingleBoostEntryExtracted ==
  (pc = "done" /\ Len(SelectSeq(NormalizedPackages, IsBoostEntry)) <= 1) =>
    /\ checked_packages(input.kw).status = "ok"
    /\ checked_packages(input.kw).value
         = SelectSeq(NormalizedPackages, LAMBDA pkg : ~IsBoostEntry(pkg))

\* with two Boost entries the second reaches check_packages, which does not
\* find a package of that name
C14_SecondBoostEntryChecked ==
  (pc = "done" /\ Len(SelectSeq(NormalizedPackages, IsBoostEntry)) = 2) =>
    /\ Len(SelectSeq(checked_packages(input.kw).value, IsBoostEntry)) = 1
    /\ output = Failure("not found")

(***************************************************************************)
(* Library.__init__.  A list object is a reference into heap; the default  *)
(* value of system_include_dirs is one list object, made when the method   *)
(* is defined and bound to the parameter in every call that omits it.      *)
(***************************************************************************)
\* os.path.realpath('.')
WorkingDirectory == <<"/", "w">>

\* a keyword of Library.__init__, its default being an empty list
argument(call, key) == IF key \in DOMAIN call THEN call[key] ELSE <<>>

RECURSIVE join_all(_, _)
\* os.path.join(a, *parts)
join_all(a, parts) ==
  IF parts = <<>> THEN a ELSE join_all(os_path_join(a, parts[1]), Tail(parts))

\* self.c_system_include_directories = system_include_dirs: the list
\* object the caller passed, which is a new object fresh when the caller
\* wrote a list, and the default list object when the caller wrote none
system_include_list(hp, call, fresh) ==
  IF "system_include_dirs" \in DOMAIN call THEN fresh ELSE DefaultSystemIncludeDirs

\* the attributes of the Library once the base class constructor has run
library_object(call, name_split, c_target_directory, bob, pkg, list) ==
  [c_name |-> Last(name_split),
   c_package_directory |-> WorkingDirectory,
   c_target_directory |-> c_target_directory,
   c_version |-> call.version,
   c_include_directories |->
     bob.includes
     \o <<os_path_join(c_target_directory, <<"i", "n", "c", "l", "u", "d", "e">>)>>
     \o argument(call, "include_dirs"),
   c_system_include_directories |-> list,
   c_libraries |-> bob.libraries \o argument(call, "libraries") \o pkg.pkg_libraries,
   c_library_directories |->
     bob.library_directories \o argument(call, "library_dirs")
     \o pkg.pkg_library_directories,
   c_define_macros |-> argument(call, "define_macros") \o pkg.pkg_macros,
   pkg_includes |-> pkg.pkg_includes]

\* from the call of the base class constructor on, ext being its outcome:
\* self.c_system_include_directories.extend(self.pkg_includes) changes the
\* list object in place
Library_after_base(hp, fresh, call, name_split, bob, ext) ==
  IF ext.status = "error" THEN ext
  ELSE
    LET list == system_include_list(hp, call, fresh)
        allocated == IF "system_include_dirs" \in DOMAIN call
                     THEN hp @@ (fresh :> call.system_include_dirs) ELSE hp
    IN Success(
         [self |-> library_object(call, name_split,
                                  join_all(WorkingDirectory, Front(name_split)),
                                  bob, ext.value, list),
          heap |-> [allocated EXCEPT ![list] = @ \o ext.value.pkg_includes]])

\* Library.__init__(self, name, sources, version, ...) run on the heap hp,
\* fresh being the reference of the next new list object; the base class
\* constructor runs once and its outcome is bound to ext
Library_init(sys, hp, fresh, call) ==
  LET name_split == str_split(call.name, ".", <<>>)
      bob == get_bob_libraries(sys, argument(call, "bob_packages"))
  IN
  IF Len(name_split) <= 1 THEN Failure("ValueError")
  ELSE IF bob.status = "error" THEN bob
  ELSE IF ~sys.cmake THEN Failure("OSError")
  ELSE CHOOSE result \in
         {Library_after_base(hp, fresh, call, n, b, ext) :
            n \in {name_split}, b \in {bob.value},
            ext \in {Extension_init(sys, call.name,
                       [packages |->
                          [is_str |-> FALSE, value |-> argument(call, "packages")],
                        boost_modules |->
                          [is_str |-> FALSE, value |-> argument(call, "boost_modules")]])}} :
         TRUE

(***************************************************************************)
(* A setup script constructing Library targets one after the other         *)
(***************************************************************************)
MaxLibraries == 2

LibraryQualifiedNames == {<<"a", ".", "x">>, <<"a", ".", "y">>, <<"x">>}

LibraryCalls ==
  {[name |-> n, version |-> <<"1">>] @@ pk @@ s :
     n \in LibraryQualifiedNames,
     pk \in {<<>>, [packages |-> << <<"a">> >>], [packages |-> << <<"b">> >>]},
     s \in {<<>>, [system_include_dirs |-> << <<"/", "s">> >>]}}

LibrarySystems ==
  {[platform |-> "Linux", python3 |-> TRUE,
    installed |-> [n \in PackageNames |-> <<"2">>],
    pkg |-> PkgInfo, boost |-> BoostInfo, bob |-> <<>>, cmake |-> c] : c \in BOOLEAN}

InitLibraries ==
  /\ IdleRun
  /\ pc = "call"
  /\ input \in {[sys |-> s, calls |-> <<>>] : s \in LibrarySystems}
  /\ output = NotStarted

\* the next Library(...) of the script; an exception leaves no target
ConstructLibrary ==
  /\ pc = "call"
  /\ Len(input.calls) < MaxLibraries
  /\ \E call \in LibraryCalls :
     \E result \in {Library_init(input.sys, heap, Len(input.calls) + 1, call)} :
       /\ input' = [input EXCEPT !.calls = Append(@, call)]
       /\ IF result.status = "ok"
          THEN /\ output' = Success(result.value.self)
               /\ heap' = result.value.heap
               /\ constructed' = Append(constructed, [call |-> call, self |-> result.value.self])
          ELSE /\ output' = result
               /\ UNCHANGED <<heap, constructed>>
  /\ UNCHANGED <<runvars, pc>>

SpecLibraries == InitLibraries /\ [][ConstructLibrary]_vars

\* the system include directories of a constructed target, as its
\* attribute c_system_include_directories reads now
SystemIncludeDirsOf(k) == heap[constructed[k].self.c_system_include_directories]

\* C15: after any sequence of Library constructions the system include
\* directories of each target are the ones declared for that target
\* followed by the include directories of the packages resolved for it:
\* no construction adds entries to the list of another target, whether
\* system_include_dirs was passed or left to its default.
C15_LibrariesIndependent ==
  \A k \in 1..Len(constructed) :
    SystemIncludeDirsOf(k)
      = argument(constructed[k].call, "system_include_dirs") \o constructed[k].self.pkg_includes

\* what does hold: the targets that were given a list of their own
C15_DeclaredListsIndependent ==
  \A k \in 1..Len(constructed) :
    "system_include_dirs" \in DOMAIN constructed[k].call =>
      SystemIncludeDirsOf(k)
        = constructed[k].call.system_include_dirs \o constructed[k].self.pkg_includes

\* and the other attributes, which are copies
C15_OtherListsIndependent ==
  [][\A k \in 1..Len(constructed) : constructed'[k] = constructed[k]]_vars

====
